---- MODULE Spec2Model ----
(***************************************************************************)
(* Model of python_telegram_bot/telegram_bot_enhanced.py: the retrying     *)
(* API client (_make_api_request) and the four update handlers (start,     *)
(* status, handle_message, weather) of TelegramBotEnhanced.                *)
(*                                                                         *)
(* A handler invocation is a coroutine on the single asyncio event-loop    *)
(* thread.  `loop` is the coroutine that currently occupies that thread    *)
(* (0 = the thread is free).  A coroutine gives the thread up only at an   *)
(* `await`; requests.request and time.sleep are plain blocking calls.      *)
(*                                                                         *)
(* Text is a sequence of pieces [s |-> literal, n |-> number of code       *)
(* points]; f-string formatting and str.join are concatenation.            *)
(***************************************************************************)
EXTENDS Integers, Sequences, FiniteSets, TLC

VARIABLES
    application,  \* self.application: FALSE = None, TRUE = built
    loop,         \* handler occupying the event-loop thread, 0 when free
    pc,           \* position of each handler invocation
    ev,           \* the Update (and context.args) each handler was given
    calls,        \* arguments of every _make_api_request call of the handler
    attempt,      \* the `attempt` loop variable of _make_api_request
    outcomes,     \* outcome of every requests.request of the invocation
    sleeps,       \* argument of every time.sleep of the invocation
    trace,        \* order of the observable steps of the invocation
    result,       \* value returned by _make_api_request
    typing,       \* outcome of chat.send_action
    outText,      \* argument of the pending reply_text
    emitted,      \* texts delivered by reply_text
    raised,       \* TRUE when the handler ended with an exception
    sentChat,     \* chat each delivered text of the invocation went to
    prev          \* ids and payload identity of the last finished request

vars == <<application, loop, pc, ev, calls, attempt, outcomes, sleeps, trace,
          result, typing, outText, emitted, raised, sentChat, prev>>

\* ------------------------------------------------------------------ bounds
NumHandlers == 2
MaxArgs == 2
MaxUserId == 2

\* --------------------------------------------------------------- constants
MAX_RETRIES == 3
RETRY_DELAY == 2

Handlers == 1..NumHandlers

\* -------------------------------------------------------------------- text
T(s, n) == <<[s |-> s, n |-> n]>>

RECURSIVE TextLen(_)
TextLen(t) == IF t = <<>> THEN 0 ELSE Head(t).n + TextLen(Tail(t))

Contains(t, piece) == \E i \in 1..Len(t) : <<t[i]>> = piece

DigitChar(d) == <<"0", "1", "2", "3", "4", "5", "6", "7", "8", "9">>[d + 1]

RECURSIVE NatToStr(_)
NatToStr(n) ==
    IF n < 10 THEN T(DigitChar(n), 1)
    ELSE NatToStr(n \div 10) \o T(DigitChar(n % 10), 1)

\* str(int)
IntToStr(i) == IF i < 0 THEN T("-", 1) \o NatToStr(0 - i) ELSE NatToStr(i)

\* " ".join(context.args)
RECURSIVE Join(_)
Join(args) ==
    IF args = <<>> THEN <<>>
    ELSE IF Len(args) = 1 THEN args[1]
    ELSE args[1] \o T(" ", 1) \o Join(Tail(args))

\* ------------------------------------------------------------- JSON values
\* A parsed body: a dict (set of <<key, value>> pairs), a list (set of its
\* string elements) or None (JSON null).  None is also the client's
\* "no result" return value.
JDict(d) == [t |-> "dict", d |-> d, l |-> {}]
JList(l) == [t |-> "list", d |-> {}, l |-> l]
None == [t |-> "None", d |-> {}, l |-> {}]
\* the local variable `result` before the call has returned
Unbound == [t |-> "unbound", d |-> {}, l |-> {}]
\* a body on which response.json() raises
Unparsable == [t |-> "unparsable", d |-> {}, l |-> {}]

\* bool(v)
Truthy(v) == (v.t = "dict" /\ v.d # {}) \/ (v.t = "list" /\ v.l # {})

\* key in v
HasKey(v, k) ==
    IF v.t = "dict" THEN \E p \in v.d : p[1] = k ELSE k \in v.l

\* v[k] for a dict that has k
Subscript(v, k) == (CHOOSE p \in v.d : p[1] = k)[2]

\* v.get(k, default) for a dict
Get(v, k, default) == IF HasKey(v, k) THEN Subscript(v, k) ELSE default

\* ------------------------------------------------------------------ inputs
Short == T("hi", 2)
Long3998 == T("a*3998", 3998)
Long3999 == T("a*3999", 3999)
Long9000 == T("a*9000", 9000)
QuotaExceeded == T("quota exceeded", 14)
ConnectionErrorText == T("Connection error", 16)
UnknownErrorText == T("Unknown error", 13)

ReplyTexts == {Short, Long3998, Long3999, Long9000}
ErrorTexts == {QuotaExceeded, ConnectionErrorText}

Bodies ==
    {Unparsable, None, JDict({}), JList({}), JList({"reply"}), JList({"x"}),
     JDict({<<"title", Short>>}),
     JDict({<<"reply", Short>>, <<"error", QuotaExceeded>>})}
    \cup {JDict({<<"reply", r>>}) : r \in ReplyTexts}
    \cup {JDict({<<"error", e>>}) : e \in ErrorTexts}

Http(status, body) == [k |-> "http", status |-> status, body |-> body]
ConnectionError == [k |-> "ConnectionError", status |-> 0, body |-> None]
Timeout == [k |-> "Timeout", status |-> 0, body |-> None]
OtherException == [k |-> "Exception", status |-> 0, body |-> None]

\* what one requests.request(...) can do
Outcomes ==
    {Http(200, b) : b \in Bodies}
    \cup {Http(s, None) : s \in {204, 304, 400, 404, 499, 500, 503}}
    \cup {ConnectionError, Timeout, OtherException}

ConcOutcomes ==
    {Http(200, JDict({<<"reply", Short>>})), Http(503, None)}

UserIds == 1..MaxUserId
ChatIds == {-12, 7}
Words == <<T("Barcelona", 9), T("York", 4), T("New", 3)>>

RECURSIVE ArgLists(_)
ArgLists(n) ==
    IF n = 0 THEN {<<>>}
    ELSE ArgLists(n - 1)
         \cup {<<Words[(n % 3) + 1]>> \o a : a \in {b \in ArgLists(n - 1) : Len(b) = n - 1}}

Event(kind, hasMessage, chat, user, text, args) ==
    [kind |-> kind, message |-> hasMessage, chat_id |-> chat,
     user_id |-> user, text |-> text, args |-> args]

\* the updates the dispatcher can hand to a handler
Events ==
    {Event(k, m, c, u, <<>>, <<>>) :
        k \in {"start", "status"}, m \in BOOLEAN, c \in ChatIds, u \in UserIds}
    \cup {Event("message", m, c, u, t, <<>>) :
        m \in BOOLEAN, c \in ChatIds, u \in UserIds, t \in {Short, T("what time is it", 15)}}
    \cup {Event("weather", m, c, u, <<>>, a) :
        m \in BOOLEAN, c \in ChatIds, u \in UserIds, a \in ArgLists(MaxArgs)}

\* one chat and one user per concurrent handler
ConcEvents(h) ==
    {Event(k, TRUE, 0 - h, h, <<>>, <<>>) : k \in {"start", "status"}}
    \cup {Event("message", TRUE, 0 - h, h, Short, <<>>)}
    \cup {Event("weather", TRUE, 0 - h, h, <<>>, <<Words[1]>>)}

NoEvent == Event("none", FALSE, 0, 0, <<>>, <<>>)

\* ------------------------------------------------------------ fixed texts
BotMarker == T("<robot> ", 2)
AiErrorPrefix == T("<x> AI Error: ", 12)
WeatherMarker == T("<sun> ", 3)
WeatherFailedPrefix == T("<x> Failed to get weather for ", 28)
UsageText == T("<x> Please specify a location. Example: /weather Barcelona", 56)
WelcomeText == T("Welcome to Go AI Assistant Bot! ...", 274)
OperationalText == T("System Status: Service Running ... System is ready to work!", 225)
DegradedText == T("System Status: Service Unavailable ... Make sure the Go server is running", 146)

\* ------------------------------------------------------- request building
ContinueEndpoint == "/twirp/acai.chat.ChatService/ContinueConversation"

\* variant: the user id is offset by what an earlier invocation left behind
SessionMetadataCarried(e) ==
    [platform |-> "telegram",
     user_id |-> IntToStr(e.user_id + prev.user_id),
     chat_id |-> IntToStr(e.chat_id)]

SessionMetadata(e) ==
    [platform |-> "telegram",
     user_id |-> IntToStr(e.user_id),
     chat_id |-> IntToStr(e.chat_id)]

NoPayload ==
    [has |-> FALSE, message |-> <<>>,
     session_metadata |-> [platform |-> "", user_id |-> <<>>, chat_id |-> <<>>]]

\* variant: the payload is built from an update kept in a shared field
PayloadShared(e, message) ==
    [has |-> TRUE, message |-> ev[1].text, session_metadata |-> SessionMetadata(ev[1])]

Payload(e, message) ==
    [has |-> TRUE, message |-> message, session_metadata |-> SessionMetadata(e)]

\* self._make_api_request("GET", "/")
HealthCall == [method |-> "GET", endpoint |-> "/", payload |-> NoPayload]

\* variant: the handler posts to StartConversation
ContinueCallStart(e, message) ==
    [method |-> "POST", endpoint |-> "/twirp/acai.chat.ChatService/StartConversation",
     payload |-> Payload(e, message)]

\* self._make_api_request("POST", ".../ContinueConversation", json=payload, ...)
ContinueCall(e, message) ==
    [method |-> "POST", endpoint |-> ContinueEndpoint, payload |-> Payload(e, message)]

WeatherQuestion(location) ==
    T("What is the weather like in ", 28) \o location \o T("?", 1)

\* ------------------------------------------------------ _make_api_request
\* variant: every status from 400 up is retried
ClassifyRetry4xx(o) ==
    IF o.k = "http" THEN
        IF o.status = 200 THEN
            IF o.body = Unparsable THEN "return_none" ELSE "return_json"
        ELSE IF o.status >= 400 THEN "retry"
        ELSE "return_none"
    ELSE IF o.k \in {"ConnectionError", "Timeout"} THEN "retry"
    ELSE "return_none"

\* variant: response.json() is called outside the try block
ClassifyJsonOutsideTry(o) ==
    IF o.k = "http" THEN
        IF o.status = 200 THEN
            IF o.body = Unparsable THEN "propagate" ELSE "return_json"
        ELSE IF o.status >= 500 THEN "retry"
        ELSE "return_none"
    ELSE IF o.k \in {"ConnectionError", "Timeout"} THEN "retry"
    ELSE "return_none"

\* variant: the bare except clause retries like the two before it
ClassifyRetryOther(o) ==
    IF o.k = "http" THEN
        IF o.status = 200 THEN
            IF o.body = Unparsable THEN "retry" ELSE "return_json"
        ELSE IF o.status >= 500 THEN "retry"
        ELSE "return_none"
    ELSE "retry"

\* variant: only [400, 500) fails fast, other non-200 statuses are retried
ClassifyRetryBelow400(o) ==
    IF o.k = "http" THEN
        IF o.status = 200 THEN
            IF o.body = Unparsable THEN "return_none" ELSE "return_json"
        ELSE IF o.status >= 400 /\ o.status < 500 THEN "return_none"
        ELSE "retry"
    ELSE IF o.k \in {"ConnectionError", "Timeout"} THEN "retry"
    ELSE "return_none"

\* the if/elif/else and except clauses applied to one attempt's outcome
Classify(o) ==
    IF o.k = "http" THEN
        IF o.status = 200 THEN
            IF o.body = Unparsable THEN "return_none"   \* json() raises: except Exception
            ELSE "return_json"
        ELSE IF o.status >= 500 THEN "retry"
        ELSE "return_none"
    ELSE IF o.k \in {"ConnectionError", "Timeout"} THEN "retry"
    ELSE "return_none"

\* variant: the sleep also follows the last attempt
SleepDueAfterLast(a) == a < MAX_RETRIES

\* variant: no sleep between attempts
SleepDueNever(a) == FALSE

\* if attempt < MAX_RETRIES - 1
SleepDue(a) == a < MAX_RETRIES - 1

\* variant: range(MAX_RETRIES + 1)
MoreAttemptsOneExtra(a) == a + 1 < MAX_RETRIES + 1

\* for attempt in range(MAX_RETRIES)
MoreAttempts(a) == a + 1 < MAX_RETRIES

Append2(f, h, x) == [f EXCEPT ![h] = Append(@, x)]

\* the for statement takes its next value, or the loop ends and the
\* function returns None
NextIteration(h) ==
    IF MoreAttempts(attempt[h])
    THEN /\ attempt' = [attempt EXCEPT ![h] = @ + 1]
         /\ pc' = [pc EXCEPT ![h] = "request"]
         /\ UNCHANGED result
    ELSE /\ pc' = [pc EXCEPT ![h] = "returned"]
         /\ result' = [result EXCEPT ![h] = None]
         /\ UNCHANGED attempt

\* one pass through the try block: requests.request(...) and what follows
Attempt(h, O) ==
    /\ pc[h] = "request"
    /\ loop = h
    /\ \E o \in O :
        /\ outcomes' = Append2(outcomes, h, o)
        /\ trace' = Append2(trace, h, "attempt")
        /\ CASE Classify(o) = "return_json" ->
                  /\ result' = [result EXCEPT ![h] = o.body]
                  /\ pc' = [pc EXCEPT ![h] = "returned"]
                  /\ UNCHANGED attempt
             [] Classify(o) = "return_none" ->
                  /\ result' = [result EXCEPT ![h] = None]
                  /\ pc' = [pc EXCEPT ![h] = "returned"]
                  /\ UNCHANGED attempt
             [] Classify(o) = "propagate" ->   \* no except clause matches
                  /\ pc' = [pc EXCEPT ![h] = "done"]
                  /\ UNCHANGED <<attempt, result>>
             [] Classify(o) = "retry" ->
                  IF SleepDue(attempt[h])
                  THEN /\ pc' = [pc EXCEPT ![h] = "sleep"]
                       /\ UNCHANGED <<attempt, result>>
                  ELSE NextIteration(h)
    /\ loop' = (IF pc'[h] = "done" THEN 0 ELSE loop)
    /\ raised' = [raised EXCEPT ![h] = (pc'[h] = "done")]
    /\ UNCHANGED <<application, ev, calls, sleeps, typing, outText, emitted,
                   sentChat, prev>>

\* time.sleep(RETRY_DELAY): the thread is blocked, then the loop goes on
Sleep(h) ==
    /\ pc[h] = "sleep"
    /\ loop = h
    /\ sleeps' = Append2(sleeps, h, RETRY_DELAY)
    /\ trace' = Append2(trace, h, "sleep")
    /\ NextIteration(h)
    /\ UNCHANGED <<application, loop, ev, calls, outcomes, typing, outText,
                   emitted, raised,
                   sentChat, prev>>

\* --------------------------------------------------------------- handlers
\* no coroutine occupies the event-loop thread
ThreadFree == loop = 0

\* the coroutine returns (exc = FALSE) or an exception leaves it (exc = TRUE)
Finish(h, exc) ==
    /\ pc' = [pc EXCEPT ![h] = "done"]
    /\ raised' = [raised EXCEPT ![h] = exc]
    /\ loop' = 0

\* result = self._make_api_request(...): a plain call, the thread is kept
BeginRequest(h, c) ==
    /\ calls' = Append2(calls, h, c)
    /\ attempt' = [attempt EXCEPT ![h] = 0]
    /\ pc' = [pc EXCEPT ![h] = "request"]
    /\ loop' = h

\* await update.message.reply_text(text): the coroutine is suspended
AwaitReply(h, text) ==
    /\ outText' = [outText EXCEPT ![h] = text]
    /\ trace' = Append2(trace, h, "reply_text")
    /\ pc' = [pc EXCEPT ![h] = "await_reply"]
    /\ loop' = 0

\* await self._send_typing_action(update): the coroutine is suspended
AwaitTyping(h) ==
    /\ trace' = Append2(trace, h, "typing")
    /\ pc' = [pc EXCEPT ![h] = "await_typing"]
    /\ loop' = 0

\* bot.run(): self.application is built, then polling starts
run ==
    /\ ~application
    /\ application' = TRUE
    /\ UNCHANGED <<loop, pc, ev, calls, attempt, outcomes, sleeps, trace,
                   result, typing, outText, emitted, raised, sentChat, prev>>

\* the dispatcher creates the handler coroutine for an update
Dispatch(h, E) ==
    /\ application
    /\ pc[h] = "idle"
    /\ ThreadFree
    /\ \E e \in E : ev' = [ev EXCEPT ![h] = e]
    /\ pc' = [pc EXCEPT ![h] = "entry"]
    /\ UNCHANGED <<application, loop, calls, attempt, outcomes, sleeps, trace,
                   result, typing, outText, emitted, raised,
                   sentChat, prev>>

start(h) ==
    /\ pc[h] = "entry" /\ ev[h].kind = "start"
    /\ ThreadFree
    /\ IF ~ev[h].message
       THEN Finish(h, FALSE) /\ UNCHANGED <<outText, trace>>
       ELSE AwaitReply(h, WelcomeText) /\ UNCHANGED raised
    /\ UNCHANGED <<application, ev, calls, attempt, outcomes, sleeps, result,
                   typing, emitted,
                   sentChat, prev>>

\* status up to the return of the health probe
status(h) ==
    /\ pc[h] = "entry" /\ ev[h].kind = "status"
    /\ ThreadFree
    /\ IF ~ev[h].message
       THEN Finish(h, FALSE) /\ UNCHANGED <<calls, attempt>>
       ELSE BeginRequest(h, HealthCall) /\ UNCHANGED raised
    /\ UNCHANGED <<application, ev, outcomes, sleeps, trace, result, typing,
                   outText, emitted,
                   sentChat, prev>>

\* if health_result: ... else: ...; await reply_text(status_message)
status_result(h) ==
    /\ pc[h] = "returned" /\ ev[h].kind = "status"
    /\ loop = h
    /\ AwaitReply(h, IF Truthy(result[h]) THEN OperationalText ELSE DegradedText)
    /\ UNCHANGED <<application, ev, calls, attempt, outcomes, sleeps, result,
                   typing, emitted, raised,
                   sentChat, prev>>

\* handle_message up to the await of the typing indicator
handle_message(h) ==
    /\ pc[h] = "entry" /\ ev[h].kind = "message"
    /\ ThreadFree
    /\ IF ~ev[h].message
       THEN Finish(h, FALSE) /\ UNCHANGED trace
       ELSE AwaitTyping(h) /\ UNCHANGED raised
    /\ UNCHANGED <<application, ev, calls, attempt, outcomes, sleeps, result,
                   typing, outText, emitted,
                   sentChat, prev>>

\* variant: the exception of send_action is not caught
TypingEscapesOnFailure(ok) == ~ok

\* try: await send_action(...) except Exception: logger.warning(...)
\* TRUE when an exception leaves _send_typing_action
TypingEscapes(ok) == FALSE

\* _send_typing_action ends with the send done or failed, then the caller
\* goes on with call c (or ends, were the exception to reach it)
AfterTyping(h, c) ==
    \E ok \in BOOLEAN :
        /\ typing' = [typing EXCEPT ![h] = IF ok THEN "sent" ELSE "failed"]
        /\ IF TypingEscapes(ok)
           THEN Finish(h, TRUE) /\ UNCHANGED <<calls, attempt>>
           ELSE BeginRequest(h, c) /\ UNCHANGED raised

\* _send_typing_action ends (an exception of send_action is caught and
\* logged), then the payload is built and the client is called
handle_message_request(h) ==
    /\ pc[h] = "await_typing" /\ ev[h].kind = "message"
    /\ ThreadFree
    /\ AfterTyping(h, ContinueCall(ev[h], ev[h].text))
    /\ UNCHANGED <<application, ev, outcomes, sleeps, trace, result, outText,
                   emitted, sentChat, prev>>

\* result.get("error", "Unknown error") if result else "Connection error"
ErrorMsg(r) ==
    IF Truthy(r) THEN Get(r, "error", UnknownErrorText) ELSE ConnectionErrorText

\* f"<x> AI Error: {error_msg}"
AiErrorText(r) == AiErrorPrefix \o ErrorMsg(r)

\* f"<robot> {reply}"
ReplyText(r) == BotMarker \o Subscript(r, "reply")

\* if result and "reply" in result: ... else: ...
handle_message_result(h) ==
    /\ pc[h] = "returned" /\ ev[h].kind = "message"
    /\ loop = h
    /\ LET r == result[h] IN
       IF Truthy(r) /\ HasKey(r, "reply")
       THEN IF r.t = "dict"
            THEN AwaitReply(h, ReplyText(r)) /\ UNCHANGED raised
            ELSE Finish(h, TRUE) /\ UNCHANGED <<outText, trace>>  \* result["reply"]: TypeError
       ELSE IF Truthy(r) /\ r.t # "dict"
            THEN Finish(h, TRUE) /\ UNCHANGED <<outText, trace>>  \* result.get: AttributeError
            ELSE AwaitReply(h, AiErrorText(r)) /\ UNCHANGED raised
    /\ UNCHANGED <<application, ev, calls, attempt, outcomes, sleeps, result,
                   typing, emitted,
                   sentChat, prev>>

\* variant: the arguments are not looked at
MissingLocationIgnored(e) == FALSE

\* if context.args: ... else: usage
MissingLocation(e) == e.args = <<>>

\* weather up to the await of the usage reply or of the typing indicator
weather(h) ==
    /\ pc[h] = "entry" /\ ev[h].kind = "weather"
    /\ ThreadFree
    /\ IF ~ev[h].message
       THEN Finish(h, FALSE) /\ UNCHANGED <<outText, trace>>
       ELSE IF MissingLocation(ev[h])
            THEN AwaitReply(h, UsageText) /\ UNCHANGED raised
            ELSE AwaitTyping(h) /\ UNCHANGED <<outText, raised>>
    /\ UNCHANGED <<application, ev, calls, attempt, outcomes, sleeps, result,
                   typing, emitted,
                   sentChat, prev>>

weather_request(h) ==
    /\ pc[h] = "await_typing" /\ ev[h].kind = "weather"
    /\ ThreadFree
    /\ AfterTyping(h, ContinueCall(ev[h], WeatherQuestion(Join(ev[h].args))))
    /\ UNCHANGED <<application, ev, outcomes, sleeps, trace, result, outText,
                   emitted, sentChat, prev>>

\* f"<x> Failed to get weather for {location}"
WeatherFailedText(e) == WeatherFailedPrefix \o Join(e.args)

\* if result and "reply" in result: ... else: ...
weather_result(h) ==
    /\ pc[h] = "returned" /\ ev[h].kind = "weather"
    /\ loop = h
    /\ LET r == result[h] IN
       IF Truthy(r) /\ HasKey(r, "reply")
       THEN IF r.t = "dict"
            THEN AwaitReply(h, WeatherMarker \o Subscript(r, "reply")) /\ UNCHANGED raised
            ELSE Finish(h, TRUE) /\ UNCHANGED <<outText, trace>>  \* result['reply']: TypeError
       ELSE AwaitReply(h, WeatherFailedText(ev[h])) /\ UNCHANGED raised
    /\ UNCHANGED <<application, ev, calls, attempt, outcomes, sleeps, result,
                   typing, emitted,
                   sentChat, prev>>

\* update.message.reply_text answers in the chat of the update's message
ReplyChat(e) == e.chat_id

\* the awaited reply_text ends: the text was sent, or the send raised and
\* the exception leaves the handler
reply_text(h) ==
    /\ pc[h] = "await_reply"
    /\ ThreadFree
    /\ \E ok \in BOOLEAN :
        /\ emitted' = IF ok THEN Append2(emitted, h, outText[h]) ELSE emitted
        /\ sentChat' = IF ok THEN Append2(sentChat, h, ReplyChat(ev[h])) ELSE sentChat
        /\ Finish(h, ~ok)
    /\ UNCHANGED <<application, ev, calls, attempt, outcomes, sleeps, trace,
                   result, typing, outText, prev>>

\* what the backend was last given: the ids of the update and the session
\* identity submitted for them
Submitted(e, payload) ==
    [user_id |-> e.user_id, chat_id |-> e.chat_id,
     session_metadata |-> payload.session_metadata]

NothingSubmitted ==
    [user_id |-> 0, chat_id |-> 0, session_metadata |-> NoPayload.session_metadata]

\* the finished coroutine is discarded; its request stays with the backend
Discard(h) ==
    /\ pc[h] = "done"
    /\ pc' = [pc EXCEPT ![h] = "idle"]
    /\ ev' = [ev EXCEPT ![h] = NoEvent]
    /\ calls' = [calls EXCEPT ![h] = <<>>]
    /\ attempt' = [attempt EXCEPT ![h] = 0]
    /\ outcomes' = [outcomes EXCEPT ![h] = <<>>]
    /\ sleeps' = [sleeps EXCEPT ![h] = <<>>]
    /\ trace' = [trace EXCEPT ![h] = <<>>]
    /\ result' = [result EXCEPT ![h] = Unbound]
    /\ typing' = [typing EXCEPT ![h] = "none"]
    /\ outText' = [outText EXCEPT ![h] = <<>>]
    /\ emitted' = [emitted EXCEPT ![h] = <<>>]
    /\ raised' = [raised EXCEPT ![h] = FALSE]
    /\ sentChat' = [sentChat EXCEPT ![h] = <<>>]
    /\ prev' = (IF calls[h] # <<>> /\ calls[h][1].payload.has
                THEN Submitted(ev[h], calls[h][1].payload)
                ELSE prev)
    /\ UNCHANGED <<application, loop>>

\* ---------------------------------------------------------- specifications
Init ==
    /\ application = FALSE
    /\ loop = 0
    /\ pc = [h \in Handlers |-> "idle"]
    /\ ev = [h \in Handlers |-> NoEvent]
    /\ calls = [h \in Handlers |-> <<>>]
    /\ attempt = [h \in Handlers |-> 0]
    /\ outcomes = [h \in Handlers |-> <<>>]
    /\ sleeps = [h \in Handlers |-> <<>>]
    /\ trace = [h \in Handlers |-> <<>>]
    /\ result = [h \in Handlers |-> Unbound]
    /\ typing = [h \in Handlers |-> "none"]
    /\ outText = [h \in Handlers |-> <<>>]
    /\ emitted = [h \in Handlers |-> <<>>]
    /\ raised = [h \in Handlers |-> FALSE]
    /\ sentChat = [h \in Handlers |-> <<>>]
    /\ prev = NothingSubmitted

\* the life of one handler coroutine
Handle(h, E, O) ==
    \/ Dispatch(h, E)
    \/ start(h)
    \/ status(h)
    \/ status_result(h)
    \/ handle_message(h)
    \/ handle_message_request(h)
    \/ handle_message_result(h)
    \/ weather(h)
    \/ weather_request(h)
    \/ weather_result(h)
    \/ Attempt(h, O)
    \/ Sleep(h)
    \/ reply_text(h)

\* a handler slot serves one update after another
Step(h, E, O) == Handle(h, E, O) \/ Discard(h)

\* one update at a time, every input and every backend behaviour
Next == run \/ Step(1, Events, Outcomes)

Spec == Init /\ [][Next]_vars

\* the blocking calls end: requests.request within its timeout, time.sleep
\* after RETRY_DELAY
SpecLive == Spec /\ WF_vars(Attempt(1, Outcomes)) /\ WF_vars(Sleep(1))

\* updates of different chats handled concurrently, one coroutine each
NextConc == run \/ \E h \in Handlers : Handle(h, ConcEvents(h), ConcOutcomes)

SpecConc == Init /\ [][NextConc]_vars

\* ------------------------------------------------------------ observations
\* the network attempts and sleeps of the invocation, in order
ClientTrace(h) == SelectSeq(trace[h], LAMBDA x : x \in {"attempt", "sleep"})

\* _make_api_request has returned to the handler
Returned(h) == pc[h] \in {"returned", "await_reply", "done"} /\ calls[h] # <<>>

Is503(o) == o.k = "http" /\ o.status = 503

Is4xx(o) == o.k = "http" /\ o.status >= 400 /\ o.status < 500

\* attempt, sleep, attempt, ..., attempt: n attempts with a sleep between
Alternating(n) ==
    [i \in 1..(2 * n - 1) |-> IF i % 2 = 1 THEN "attempt" ELSE "sleep"]

\* ------------------------------------------------------------------ claims
\* C1: a call whose every attempt got HTTP 503 has made exactly MAX_RETRIES
\* attempts, slept RETRY_DELAY between consecutive attempts and not after
\* the last one, and returned None.
C1_RetryBound ==
    \A h \in Handlers :
        (Returned(h) /\ \A i \in 1..Len(outcomes[h]) : Is503(outcomes[h][i]))
        => /\ Len(outcomes[h]) = MAX_RETRIES
           /\ ClientTrace(h) = Alternating(MAX_RETRIES)
           /\ sleeps[h] = [i \in 1..(MAX_RETRIES - 1) |-> RETRY_DELAY]
           /\ result[h] = None

C1_Witness ==
    /\ pc[1] = "returned"
    /\ Len(outcomes[1]) = MAX_RETRIES
    /\ \A i \in 1..MAX_RETRIES : Is503(outcomes[1][i])
    /\ Len(sleeps[1]) = MAX_RETRIES - 1

\* C2: an attempt answered with a status in [400, 500) is the last step of
\* the call: the call has returned None, no attempt and no sleep follows it,
\* and when it is the first attempt there was 1 attempt and 0 sleeps.
C2_FastFail ==
    \A h \in Handlers : \A i \in 1..Len(outcomes[h]) :
        Is4xx(outcomes[h][i])
        => /\ i = Len(outcomes[h])
           /\ Returned(h)
           /\ result[h] = None
           /\ ClientTrace(h) = Alternating(i)
           /\ Len(sleeps[h]) = i - 1

C2_Witness ==
    /\ pc[1] = "returned"
    /\ outcomes[1] = <<Http(400, None)>>
    /\ sleeps[1] = <<>>
    /\ result[1] = None

\* the handler runs one of the router's operations: its update carries a
\* message, so there is a chat to answer (an update without one is dropped
\* by the first statement of every handler)
Routed(h, kind) == ev[h].kind = kind /\ ev[h].message

\* the handler has called reply_text
Replying(h) == pc[h] \in {"await_reply", "done"} /\ outText[h] # <<>>

\* the result holds a reply that handle_message formats
HasReply(r) == r.t = "dict" /\ HasKey(r, "reply")

RECURSIVE Concat(_)
Concat(ts) == IF ts = <<>> THEN <<>> ELSE Head(ts) \o Concat(Tail(ts))

\* C3: a formatted reply longer than 4000 characters is emitted as
\* consecutive messages of at most 4000 characters whose concatenation is
\* the formatted text; a reply of 9000 characters gives 3 messages.
C3_LongReplySplit ==
    \A h \in Handlers :
        (/\ Routed(h, "message")
         /\ pc[h] = "done" /\ ~raised[h]
         /\ HasReply(result[h])
         /\ TextLen(ReplyText(result[h])) > 4000)
        => /\ \A i \in 1..Len(emitted[h]) : TextLen(emitted[h][i]) <= 4000
           /\ Concat(emitted[h]) = ReplyText(result[h])
           /\ (TextLen(Subscript(result[h], "reply")) = 9000 => Len(emitted[h]) = 3)

\* the answer to the last attempt of the call
LastOutcome(h) == outcomes[h][Len(outcomes[h])]

\* C4: status emits the operational text exactly when the probe was
\* answered with HTTP 200, whatever the body, and the degraded text for
\* every other outcome.
C4_HealthProbe ==
    \A h \in Handlers :
        (Routed(h, "status") /\ Replying(h))
        => outText[h] =
              (IF LastOutcome(h).k = "http" /\ LastOutcome(h).status = 200
               THEN OperationalText ELSE DegradedText)

\* some step of handler g is possible now
CanStep(g) ==
    ENABLED (start(g) \/ status(g) \/ handle_message(g) \/ weather(g)
             \/ handle_message_request(g) \/ weather_request(g) \/ reply_text(g))

\* handler g was created, or waits for an awaited send to end
Runnable(g) == pc[g] \in {"entry", "await_typing", "await_reply"}

\* C5: while a handler is in the retry sleep (or in the blocking attempt)
\* of its call, a handler of another chat that is ready to run can run.
C5_SleepBlocksOnlyItsHandler ==
    \A h, g \in Handlers :
        (h # g /\ pc[h] = "sleep" /\ Runnable(g)) => CanStep(g)

\* C6: a result without reply whose error is e gives an emitted text that
\* contains e, None gives the connection-error text, and the two differ.
C6_ErrorDistinctFromAbsent ==
    \A h \in Handlers :
        (Routed(h, "message") /\ Replying(h))
        => /\ (result[h] = None
               => outText[h] = AiErrorPrefix \o ConnectionErrorText)
           /\ (/\ result[h].t = "dict"
               /\ ~HasKey(result[h], "reply")
               /\ HasKey(result[h], "error"))
              => /\ Contains(outText[h], Subscript(result[h], "error"))
                 /\ outText[h] # AiErrorText(None)

StartEndpoint == "/twirp/acai.chat.ChatService/StartConversation"

\* the handler runs on_message, or on_weather with at least one argument
Conversing(h) ==
    Routed(h, "message") \/ (Routed(h, "weather") /\ ev[h].args # <<>>)

\* C7: on_message, and on_weather with an argument, call the client once,
\* on the continue-conversation endpoint, and never on start-conversation.
C7_ContinueExactlyOnce ==
    \A h \in Handlers :
        Conversing(h)
        => /\ Len(calls[h]) <= 1
           /\ \A i \in 1..Len(calls[h]) :
                 /\ calls[h][i].endpoint = ContinueEndpoint
                 /\ calls[h][i].endpoint # StartEndpoint
                 /\ calls[h][i].method = "POST"
           /\ (pc[h] \in {"request", "sleep", "returned", "await_reply", "done"}
               => Len(calls[h]) = 1)

C7_Witness ==
    /\ Routed(1, "weather") /\ ev[1].args # <<>>
    /\ pc[1] = "done"
    /\ Len(calls[1]) = 1
    /\ Len(outcomes[1]) = MAX_RETRIES

\* C8: on_weather without arguments replies with the usage text and makes
\* no client call, no network attempt and no typing signal.
C8_MissingLocationGuard ==
    \A h \in Handlers :
        (Routed(h, "weather") /\ ev[h].args = <<>> /\ pc[h] # "entry")
        => /\ calls[h] = <<>>
           /\ outcomes[h] = <<>>
           /\ typing[h] = "none"
           /\ trace[h] = <<"reply_text">>
           /\ outText[h] = UsageText
           /\ (pc[h] = "done" /\ ~raised[h] => emitted[h] = <<UsageText>>)

C8_Witness ==
    /\ Routed(1, "weather") /\ ev[1].args = <<>>
    /\ pc[1] = "done"
    /\ emitted[1] = <<UsageText>>

\* C9: every finished invocation of a router operation ended without an
\* exception and has emitted at least one message.
C9_RouterNeverRaises ==
    \A h \in Handlers :
        (pc[h] = "done" /\ ev[h].message) => (~raised[h] /\ Len(emitted[h]) >= 1)

\* C10: once the client was called and is no longer in its loop, it has
\* returned a value: the parsed body of a 200 answer, or None.
C10_ClientNeverRaises ==
    \A h \in Handlers :
        (calls[h] # <<>> /\ pc[h] \notin {"request", "sleep"})
        => /\ outcomes[h] # <<>>
           /\ result[h] # Unbound
           /\ \/ result[h] = None
              \/ /\ LastOutcome(h).k = "http" /\ LastOutcome(h).status = 200
                 /\ LastOutcome(h).body # Unparsable
                 /\ result[h] = LastOutcome(h).body

C10_Witness ==
    /\ pc[1] = "returned"
    /\ Len(outcomes[1]) = 2
    /\ outcomes[1][1] = Timeout
    /\ outcomes[1][2] = Http(200, Unparsable)
    /\ result[1] = None

\* C11: a network attempt of an invocation is preceded by that
\* invocation's typing signal, for on_message, on_weather and on_status.
C11_TypingBeforeBackend ==
    \A h \in Handlers :
        (ev[h].message /\ outcomes[h] # <<>>)
        => /\ trace[h][1] = "typing"
           /\ typing[h] \in {"sent", "failed"}

\* the decimal digits
IsDigit(c) == \E d \in 0..9 : c = T(DigitChar(d), 1)

DigitValue(c) == CHOOSE d \in 0..9 : c = T(DigitChar(d), 1)

\* a sign-free numeral without a leading zero
IsNumeral(t) ==
    /\ Len(t) >= 1
    /\ \A i \in 1..Len(t) : IsDigit(<<t[i]>>)
    /\ (Len(t) > 1 => t[1].s # "0")

RECURSIVE NumeralValue(_)
NumeralValue(t) ==
    IF Len(t) = 1 THEN DigitValue(t)
    ELSE 10 * NumeralValue(SubSeq(t, 1, Len(t) - 1)) + DigitValue(<<t[Len(t)]>>)

\* t is the one decimal string that denotes the integer i
Denotes(t, i) ==
    IF i < 0
    THEN /\ Len(t) >= 2 /\ t[1].s = "-"
         /\ IsNumeral(Tail(t)) /\ NumeralValue(Tail(t)) = 0 - i
    ELSE IsNumeral(t) /\ NumeralValue(t) = i

\* the identity is the platform constant and the two ids of update e
IdentityOf(sm, e) ==
    /\ sm.platform = "telegram"
    /\ Denotes(sm.user_id, e.user_id)
    /\ Denotes(sm.chat_id, e.chat_id)

\* C12: every continue-conversation payload carries ("telegram",
\* str(user_id), str(chat_id)) of its update, and it is the identity the
\* last finished request submitted when that one had the same two ids.
C12_SessionIdentityStable ==
    \A h \in Handlers : \A i \in 1..Len(calls[h]) :
        Conversing(h)
        => LET sm == calls[h][i].payload.session_metadata IN
           /\ calls[h][i].payload.has
           /\ IdentityOf(sm, ev[h])
           /\ (prev.user_id = ev[h].user_id /\ prev.chat_id = ev[h].chat_id
               => prev.session_metadata = sm)

C12_Witness ==
    /\ Routed(1, "message")
    /\ calls[1] # <<>>
    /\ ev[1].chat_id = -12
    /\ prev.user_id = ev[1].user_id /\ prev.chat_id = ev[1].chat_id
    /\ prev.session_metadata = calls[1][1].payload.session_metadata

IsRetryable(o) ==
    \/ o.k = "http" /\ o.status >= 500
    \/ o.k \in {"ConnectionError", "Timeout"}

IsParsed200(o) == o.k = "http" /\ o.status = 200 /\ o.body # Unparsable

\* C13: when attempts 1..k failed with a status >= 500, a connection
\* failure or a timeout and attempt k+1 got a parsable 200, the call has
\* returned that body after k+1 attempts and k sleeps.
C13_TransientFailuresHidden ==
    \A h \in Handlers : \A n \in 1..Len(outcomes[h]) :
        (/\ IsParsed200(outcomes[h][n])
         /\ \A i \in 1..(n - 1) : IsRetryable(outcomes[h][i]))
        => /\ n <= MAX_RETRIES
           /\ Len(outcomes[h]) = n
           /\ Returned(h)
           /\ result[h] = outcomes[h][n].body
           /\ ClientTrace(h) = Alternating(n)
           /\ sleeps[h] = [i \in 1..(n - 1) |-> RETRY_DELAY]

C13_Witness ==
    /\ pc[1] = "returned"
    /\ outcomes[1] = <<Timeout, Http(503, None), Http(200, JDict({<<"reply", Short>>}))>>
    /\ result[1] = JDict({<<"reply", Short>>})
    /\ Len(sleeps[1]) = 2

\* the client is inside its retry loop
InCall(h) == pc[h] \in {"request", "sleep"}

\* C14: a call makes at most MAX_RETRIES attempts and MAX_RETRIES - 1
\* sleeps, its attempt counter stays in [0, MAX_RETRIES), and it ends.
C14_CallBounded ==
    /\ [](\A h \in Handlers :
            /\ Len(outcomes[h]) <= MAX_RETRIES
            /\ Len(sleeps[h]) <= MAX_RETRIES - 1
            /\ attempt[h] \in 0..(MAX_RETRIES - 1))
    /\ \A h \in Handlers : InCall(h) ~> Returned(h)

C14_Witness ==
    /\ pc[1] = "returned"
    /\ Len(outcomes[1]) = MAX_RETRIES
    /\ Len(sleeps[1]) = MAX_RETRIES - 1
    /\ attempt[1] = MAX_RETRIES - 1
    /\ outcomes[1][MAX_RETRIES] = ConnectionError

\* a 200 answer whose body is an object without reply
IsNoReply200(o) ==
    o.k = "http" /\ o.status = 200 /\ o.body.t = "dict" /\ ~HasKey(o.body, "reply")

\* C15: for a 200 body without reply the client returns the body as a
\* present result and on_message emits an application-error text that is
\* not the connectivity text used for None.
C15_NoReplyIsApplicationError ==
    \A h \in Handlers :
        (Routed(h, "message") /\ Returned(h) /\ IsNoReply200(LastOutcome(h)))
        => /\ result[h] = LastOutcome(h).body
           /\ result[h] # None
           /\ (Replying(h) => outText[h] # AiErrorPrefix \o ConnectionErrorText)

\* C16: after a failed typing send the invocation still makes its one
\* client call and goes on to its reply: it never ends at the typing step.
C16_TypingFailureHarmless ==
    \A h \in Handlers :
        (Conversing(h) /\ typing[h] = "failed")
        => /\ Len(calls[h]) = 1
           /\ pc[h] \in {"request", "sleep", "returned", "await_reply", "done"}
           /\ (pc[h] \in {"returned", "await_reply", "done"} => outcomes[h] # <<>>)
           /\ (pc[h] = "done"
               => \/ ~raised[h] /\ Len(emitted[h]) = 1
                  \/ raised[h] /\ result[h].t = "list"
                  \/ raised[h] /\ trace[h][Len(trace[h])] = "reply_text")

C16_Witness ==
    /\ Routed(1, "weather")
    /\ typing[1] = "failed"
    /\ pc[1] = "done" /\ ~raised[1]
    /\ Len(calls[1]) = 1
    /\ Len(emitted[1]) = 1

\* an exception that is neither a connection failure nor a timeout
IsUnclassified(o) ==
    o.k = "Exception" \/ (o.k = "http" /\ o.status = 200 /\ o.body = Unparsable)

\* C17: an attempt that raised an exception other than a connection
\* failure or a timeout is the last step of the call, which has returned
\* None with no sleep after it, also when attempts remained.
C17_UnclassifiedFailsFast ==
    \A h \in Handlers : \A i \in 1..Len(outcomes[h]) :
        IsUnclassified(outcomes[h][i])
        => /\ i = Len(outcomes[h])
           /\ Returned(h)
           /\ result[h] = None
           /\ ClientTrace(h) = Alternating(i)
           /\ Len(sleeps[h]) = i - 1

C17_Witness ==
    /\ pc[1] = "returned"
    /\ outcomes[1] = <<Timeout, OtherException>>
    /\ attempt[1] = 1
    /\ Len(sleeps[1]) = 1
    /\ result[1] = None

\* the result is an object with an error field and no reply
IsErrorResult(r) == r.t = "dict" /\ ~HasKey(r, "reply") /\ HasKey(r, "error")

\* C18: the failure text emitted for a result with an error field differs
\* from the failure text emitted for None, in on_message and in on_weather.
C18_FailureTextsDistinct ==
    \A h \in Handlers :
        (Replying(h) /\ IsErrorResult(result[h]))
        => /\ (Routed(h, "message") => outText[h] # AiErrorText(None))
           /\ (Routed(h, "weather") => outText[h] # WeatherFailedText(ev[h]))

\* C19: with handlers interleaved, each request carries the text and the
\* identity of its own update and of no other, each delivered text went to
\* the chat of its own update, and no handler step changes the bot's field.
C19_NoSharedState ==
    /\ [](\A h \in Handlers :
            /\ \A i \in 1..Len(calls[h]) :
                  calls[h][i].payload.has
                  => /\ IdentityOf(calls[h][i].payload.session_metadata, ev[h])
                     /\ (ev[h].kind = "message"
                         => calls[h][i].payload.message = ev[h].text)
                     /\ (ev[h].kind = "weather"
                         => \A j \in 1..Len(ev[h].args) :
                               Contains(calls[h][i].payload.message, ev[h].args[j]))
                     /\ \A g \in Handlers \ {h} :
                           (pc[g] # "idle" /\ ev[g].chat_id # ev[h].chat_id)
                           => ~IdentityOf(calls[h][i].payload.session_metadata, ev[g])
            /\ \A i \in 1..Len(sentChat[h]) : sentChat[h][i] = ev[h].chat_id
            /\ (pc[h] # "idle" => application))
    /\ [][application => application']_vars

C19_Witness ==
    /\ pc[1] = "await_reply" /\ calls[1] # <<>>
    /\ pc[2] = "sleep" /\ calls[2] # <<>>
    /\ ev[1].chat_id # ev[2].chat_id

\* a status that is neither 200 nor a server error
IsOtherStatus(o) == o.k = "http" /\ o.status # 200 /\ o.status < 500

\* C20: an attempt answered with any status other than 200 below 500,
\* those below 400 included, is the last step of the call, which has
\* returned None with no retry and no sleep after it.
C20_Non200Below500FailsFast ==
    \A h \in Handlers : \A i \in 1..Len(outcomes[h]) :
        IsOtherStatus(outcomes[h][i])
        => /\ i = Len(outcomes[h])
           /\ Returned(h)
           /\ result[h] = None
           /\ ClientTrace(h) = Alternating(i)
           /\ Len(sleeps[h]) = i - 1

C20_Witness ==
    /\ pc[1] = "returned"
    /\ outcomes[1] = <<Http(503, None), Http(304, None)>>
    /\ Len(sleeps[1]) = 1
    /\ result[1] = None

====
